---- MODULE Spec2Model ----
(***************************************************************************)
(* Model of the BikeShare data-management dashboard:                       *)
(*   src/utils.py                        column resolver, cached loaders   *)
(*   src/pages/2_Qualite_et_nettoyage.py cleaning pipeline, missing_table  *)
(*   src/pages/4_Analyses_et_graphiques.py  hour buckets (pd.cut)          *)
(*   src/pages/1_Dataset.py, 3_Variables_creees.py callers of the loaders  *)
(*                                                                         *)
(* Representation.                                                         *)
(*  - A column name is a pair <<text, upper>>: its text in small letters   *)
(*    and the set of positions that hold a capital letter; "Ended_At" is   *)
(*    <<"ended_at", {1, 7}>>. Two names are equal when both parts are.     *)
(*  - A cell is a record [k, v]: k is the kind of value, v an integer.     *)
(*      "ts"  timestamp text "2024-01-0D hh:mm:ss", v = Dhhmmss (decimal)  *)
(*      "nan" missing value of the CSV (NaN)                               *)
(*      "dt"  datetime64 value, v = seconds since 2024-01-01 00:00:00      *)
(*      "nat" NaT                                                          *)
(*      "num" number; for trip_duration_min v is the duration in SECONDS,  *)
(*            i.e. the float minutes value times 60                        *)
(*      "day" weekday of day_name(), v = 0 (Monday) .. 6 (Sunday)          *)
(*      "cat" category of pd.cut, v = position of its label in labels      *)
(*  - A table is [columns |-> tuple of names, rows |-> tuple of rows];     *)
(*    a row is [idx |-> pandas index label, cells |-> tuple of cells].     *)
(***************************************************************************)
EXTENDS Integers, Sequences, FiniteSets, TLC

VARIABLES
    \* --- _find_col called on its own
    fc_columns, fc_candidates, fc_result,
    \* --- the input file and prepare_data (page 2), statement by statement
    file, pc, df_raw, df, start_col, end_col,
    dropped_geo, incoh, counts, before_dur, dropped_dur, cleaning_log,
    \* --- utils.load_prepared called on its own
    prepared,
    \* --- a dashboard process: st.cache_data stores and page runs
    cache, reads, shown,
    \* --- page 4, section 4.3
    df_h,
    \* --- missing_table
    mt_df, out

fcVars == <<fc_columns, fc_candidates, fc_result>>
pdVars == <<pc, df_raw, df, start_col, end_col, dropped_geo, incoh, counts,
            before_dur, dropped_dur, cleaning_log>>
lpVars == <<prepared>>
ssVars == <<cache, reads, shown>>
tsVars == <<df_h>>
mtVars == <<mt_df, out>>
vars == <<fcVars, file, pdVars, lpVars, ssVars, tsVars, mtVars>>

\* what each part of the model leaves alone
fcOthers == <<file, pdVars, lpVars, ssVars, tsVars, mtVars>>
pdOthers == <<file, fcVars, lpVars, ssVars, tsVars, mtVars>>
lpOthers == <<file, fcVars, pdVars, ssVars, tsVars, mtVars>>
ssOthers == <<fcVars, pdVars, lpVars, tsVars, mtVars>>
tsOthers == <<file, fcVars, pdVars, lpVars, ssVars, mtVars>>
mtOthers == <<file, fcVars, pdVars, lpVars, ssVars, tsVars>>

(***************************************************************************)
(* Bounds of the model.                                                    *)
(***************************************************************************)
MaxCols == 3
MaxRows == 2
MaxHours == 2
MaxMtRows == 3

(***************************************************************************)
(* Column names.                                                           *)
(***************************************************************************)
\* the name with lower-cased text `text` and capitals at the positions `upper`
Name(text, upper) == <<text, upper>>

N_started_at == Name("started_at", {})
N_start_time == Name("start_time", {})
N_starttime == Name("starttime", {})
N_start_datetime == Name("start_datetime", {})
N_ended_at == Name("ended_at", {})
N_end_time == Name("end_time", {})
N_stoptime == Name("stoptime", {})
N_end_datetime == Name("end_datetime", {})
N_end_lat == Name("end_lat", {})
N_end_lng == Name("end_lng", {})
N_trip_duration_min == Name("trip_duration_min", {})
N_day_of_week == Name("day_of_week", {})
N_start_hour == Name("start_hour", {})
N_time_slot == Name("time_slot", {})
N_ride_id == Name("ride_id", {})
N_start == Name("start", {})
N_started_at_utc == Name("started_at_utc", {})
N_STARTED_AT == Name("started_at", {1, 2, 3, 4, 5, 6, 7, 9, 10})
N_Ended_At == Name("ended_at", {1, 7})
N_END_LAT == Name("end_lat", {1, 2, 3, 5, 6, 7})
N_Start_Time == Name("start_time", {1, 7})

\* Python's None (no column name has a capital at position 0)
None == <<"None", {0}>>

\* str.lower(): every capital becomes its small letter
Lower(s) == Name(s[1], {})

----------------------------------------------------------------------------
(***************************************************************************)
(* Column resolver: _find_col and infer_cols.                              *)
(***************************************************************************)

\* {c.lower(): c for c in df.columns}: a later column replaces an earlier one
\* that has the same lower-cased name.
LowerMap(cols) ==
    [k \in {Lower(cols[i]) : i \in 1..Len(cols)} |->
        cols[CHOOSE i \in 1..Len(cols) :
                /\ Lower(cols[i]) = k
                /\ \A j \in 1..Len(cols) : Lower(cols[j]) = k => j <= i]]

\* A slip of _find_col: the alias is looked up without lower-casing the columns.
FindColCaseSensitive(cols, candidates) ==
    LET hit(n) == \E i \in 1..Len(cols) : cols[i] = candidates[n]
    IN  IF \E n \in 1..Len(candidates) : hit(n)
        THEN candidates[CHOOSE n \in 1..Len(candidates) :
                            hit(n) /\ \A m \in 1..(n - 1) : ~hit(m)]
        ELSE None

\* _find_col(df, candidates): the first candidate, in list order, whose
\* lower-cased form is a key of the map; None when the loop ends.
find_col(cols, candidates) ==
    LET lower_map == LowerMap(cols)
        hit(n) == Lower(candidates[n]) \in DOMAIN lower_map
    IN  IF \E n \in 1..Len(candidates) : hit(n)
        THEN lower_map[Lower(candidates[
                CHOOSE n \in 1..Len(candidates) :
                    hit(n) /\ \A m \in 1..(n - 1) : ~hit(m)])]
        ELSE None

StartAliases == <<N_started_at, N_start_time, N_starttime, N_start_datetime>>
EndAliases == <<N_ended_at, N_end_time, N_stoptime, N_end_datetime>>

\* infer_cols: the start and end roles (the user and bike roles of utils.py
\* are resolved the same way and are read by no modelled computation).
infer_cols(cols) ==
    [started_at |-> find_col(cols, StartAliases),
     ended_at |-> find_col(cols, EndAliases)]

\* Python truthiness of a resolved column name: None and "" are false
Truthy(c) == c # None /\ c # Name("", {})

\* --- _find_col as a program of its own ----------------------------------
ResolverNames ==
    {N_started_at, N_STARTED_AT, N_start_time, N_Start_Time, N_start,
     N_started_at_utc, N_ended_at, N_Ended_At, N_ride_id}

Pending == <<"pending", {0}>>

SeqsUpTo(S, n) == UNION {[1..m -> S] : m \in 0..n}

FcIdle == fc_columns = <<>> /\ fc_candidates = <<>> /\ fc_result = Pending

FcInit ==
    /\ fc_columns \in SeqsUpTo(ResolverNames, MaxCols)
    /\ fc_candidates \in {StartAliases, EndAliases}
    /\ fc_result = Pending

FindColCall ==
    /\ fc_result = Pending
    /\ fc_result' = find_col(fc_columns, fc_candidates)
    /\ UNCHANGED <<fc_columns, fc_candidates>>
    /\ UNCHANGED fcOthers

----------------------------------------------------------------------------
(***************************************************************************)
(* Cells, tables and the pandas operations the pipeline uses.              *)
(***************************************************************************)
Ts(v) == [k |-> "ts", v |-> v]
NaN == [k |-> "nan", v |-> 0]
Dt(s) == [k |-> "dt", v |-> s]
NaT == [k |-> "nat", v |-> 0]
Num(v) == [k |-> "num", v |-> v]

\* isna() of a cell
IsNa(c) == c.k \in {"nan", "nat"}

HasCol(t, name) == \E i \in 1..Len(t.columns) : t.columns[i] = name
ColIndex(t, name) == CHOOSE i \in 1..Len(t.columns) : t.columns[i] = name
\* df[name] at one row
Cell(t, r, name) == r.cells[ColIndex(t, name)]

\* df[name] = f(row): replaces the column, or appends it when it is new
SetCol(t, name, f(_)) ==
    IF HasCol(t, name)
    THEN [t EXCEPT !.rows = [i \in 1..Len(t.rows) |->
            [t.rows[i] EXCEPT !.cells[ColIndex(t, name)] = f(t.rows[i])]]]
    ELSE [columns |-> Append(t.columns, name),
          rows |-> [i \in 1..Len(t.rows) |->
            [t.rows[i] EXCEPT !.cells = Append(t.rows[i].cells, f(t.rows[i]))]]]

\* df.loc[mask]: the rows the boolean mask keeps, order and index labels kept
Loc(t, keep(_)) == [t EXCEPT !.rows = SelectSeq(t.rows, keep)]

\* int(mask.sum())
CountTrue(t, mask(_)) == Cardinality({i \in 1..Len(t.rows) : mask(t.rows[i])})

\* pd.read_csv: the rows of the file under a RangeIndex 0..n-1
read_csv(f) ==
    [columns |-> f.columns,
     rows |-> [i \in 1..Len(f.rows) |-> [idx |-> i - 1, cells |-> f.rows[i]]]]

(***************************************************************************)
(* Datetime normalizer.                                                    *)
(***************************************************************************)
\* "2024-01-0D hh:mm:ss" to seconds since 2024-01-01 00:00:00; -1 when the
\* fields are out of range (the parse fails)
ParseTs(v) ==
    LET d == v \div 1000000
        hh == (v \div 10000) % 100
        mm == (v \div 100) % 100
        ss == v % 100
    IN  IF d >= 1 /\ d <= 31 /\ hh <= 23 /\ mm <= 59 /\ ss <= 59
        THEN (d - 1) * 86400 + hh * 3600 + mm * 60 + ss
        ELSE -1

\* pd.to_datetime(s, errors="coerce") on one cell: what does not parse is NaT
to_datetime_safe(c) ==
    IF c.k = "dt" THEN c
    ELSE IF c.k = "ts" /\ ParseTs(c.v) >= 0 THEN Dt(ParseTs(c.v))
    ELSE NaT

(***************************************************************************)
(* Cleaning pipeline: the statements of prepare_data.                      *)
(***************************************************************************)
MIN_DURATION_MIN == 1
MAX_DURATION_MIN == 24 * 60
\* seconds in a minute: trip_duration_min is kept in seconds (minutes * 60)
PerMin == 60

\* lines 60-63: the datetime conversions, each under "if start_col:" / "if end_col:"
ConvertDatetimes(t, s, e) ==
    LET t1 == IF Truthy(s)
              THEN SetCol(t, s, LAMBDA r : to_datetime_safe(Cell(t, r, s)))
              ELSE t
    IN  IF Truthy(e)
        THEN SetCol(t1, e, LAMBDA r : to_datetime_safe(Cell(t1, r, e)))
        ELSE t1

\* line 72: the geo columns present in the table (exact, case-sensitive names)
GeoCols(t) == SelectSeq(<<N_end_lat, N_end_lng>>, LAMBDA c : HasCol(t, c))

\* df.dropna(subset=...): a row goes when any of the subset's values is missing
Dropna(t, subset) ==
    Loc(t, LAMBDA r : \A i \in 1..Len(subset) : ~IsNa(Cell(t, r, subset[i])))

\* A slip of the mask: rows with a date that did not parse are flagged as well.
MaskIncohNoValid(t, r, s, e) ==
    \/ IsNa(Cell(t, r, s)) \/ IsNa(Cell(t, r, e))
    \/ Cell(t, r, e).v < Cell(t, r, s).v

\* lines 81-82: mask_valid_dt & (df[end_col] < df[start_col]) at one row
\* (a comparison with NaT is False)
MaskIncoh(t, r, s, e) ==
    LET valid == ~IsNa(Cell(t, r, s)) /\ ~IsNa(Cell(t, r, e))
        less == /\ Cell(t, r, s).k = "dt" /\ Cell(t, r, e).k = "dt"
                /\ Cell(t, r, e).v < Cell(t, r, s).v
    IN  valid /\ less

\* line 87: (end - start).dt.total_seconds() / 60.0 at one row; NaT gives NaN.
\* The value is kept in seconds, see PerMin.
Duration(a, b) ==
    IF a.k = "dt" /\ b.k = "dt" THEN Num(b.v - a.v) ELSE NaN

\* A slip of the bounds filter: the upper bound is left out.
InBoundsNoMax(c) ==
    /\ c.k = "num"
    /\ c.v >= MIN_DURATION_MIN * PerMin

\* line 100: (dur >= MIN_DURATION_MIN) & (dur <= MAX_DURATION_MIN); NaN fails both
InBounds(c) ==
    /\ c.k = "num"
    /\ c.v >= MIN_DURATION_MIN * PerMin
    /\ c.v <= MAX_DURATION_MIN * PerMin

\* A slip of the second count: its lower limit "dur > 0" is left out.
OutlierCountsOverlap(t) ==
    LET dur(r) == Cell(t, r, N_trip_duration_min)
    IN  [n_le_0 |-> CountTrue(t, LAMBDA r : dur(r).k = "num" /\ dur(r).v <= 0),
         n_lt_1 |-> CountTrue(t, LAMBDA r :
                        dur(r).k = "num" /\ dur(r).v < MIN_DURATION_MIN * PerMin),
         n_gt_24h |-> CountTrue(t, LAMBDA r :
                        dur(r).k = "num" /\ dur(r).v > MAX_DURATION_MIN * PerMin)]

\* lines 94-96: the three diagnostic counts, taken before the filter
OutlierCounts(t) ==
    LET dur(r) == Cell(t, r, N_trip_duration_min)
    IN  [n_le_0 |-> CountTrue(t, LAMBDA r : dur(r).k = "num" /\ dur(r).v <= 0),
         n_lt_1 |-> CountTrue(t, LAMBDA r :
                        /\ dur(r).k = "num" /\ dur(r).v > 0
                        /\ dur(r).v < MIN_DURATION_MIN * PerMin),
         n_gt_24h |-> CountTrue(t, LAMBDA r :
                        dur(r).k = "num" /\ dur(r).v > MAX_DURATION_MIN * PerMin)]

\* A slip of the geo rule: it is applied as soon as one of the columns exists.
GeoStageAnyCol(t) == IF Len(GeoCols(t)) >= 1 THEN Dropna(t, GeoCols(t)) ELSE t

\* lines 71-76: the geo rule, applied only when both columns exist
GeoStage(t) == IF Len(GeoCols(t)) = 2 THEN Dropna(t, GeoCols(t)) ELSE t

\* line 83: int(mask_incoh.sum()); 0 when a timestamp column is not resolved
IncohCount(t, s, e) ==
    IF Truthy(s) /\ Truthy(e)
    THEN CountTrue(t, LAMBDA r : MaskIncoh(t, r, s, e))
    ELSE 0

\* A slip of the temporal rule: the flagged rows are counted but not removed.
IncohStageKeepAll(t, s, e) ==
    IF Truthy(s) /\ Truthy(e)
    THEN SetCol(t, N_trip_duration_min,
                LAMBDA r : Duration(Cell(t, r, s), Cell(t, r, e)))
    ELSE SetCol(t, N_trip_duration_min, LAMBDA r : NaN)

\* A slip of the branch without timestamp columns: the column is filled with 0.
IncohStageZeroFill(t, s, e) ==
    IF Truthy(s) /\ Truthy(e)
    THEN LET kept == Loc(t, LAMBDA r : ~MaskIncoh(t, r, s, e))
         IN  SetCol(kept, N_trip_duration_min,
                    LAMBDA r : Duration(Cell(kept, r, s), Cell(kept, r, e)))
    ELSE SetCol(t, N_trip_duration_min, LAMBDA r : Num(0))

\* lines 80-90: drop the flagged rows and add trip_duration_min; without the
\* two timestamp columns the column is all NaN
IncohStage(t, s, e) ==
    IF Truthy(s) /\ Truthy(e)
    THEN LET kept == Loc(t, LAMBDA r : ~MaskIncoh(t, r, s, e))
         IN  SetCol(kept, N_trip_duration_min,
                    LAMBDA r : Duration(Cell(kept, r, s), Cell(kept, r, e)))
    ELSE SetCol(t, N_trip_duration_min, LAMBDA r : NaN)

\* line 100: the duration-bounds filter
BoundsStage(t) == Loc(t, LAMBDA r : InBounds(Cell(t, r, N_trip_duration_min)))

\* A slip of the summary: the total leaves out the temporal rule's rows.
DroppedTotalNoIncoh(raw_n, clean_n, n_geo, n_incoh, n_dur) == n_geo + n_dur

\* line 106: dropped_total
DroppedTotal(raw_n, clean_n, n_geo, n_incoh, n_dur) == raw_n - clean_n

\* lines 104-120: the cleaning log
MakeLog(raw, clean, n_geo, n_incoh, cnt, n_dur, s, e) ==
    [raw_n |-> Len(raw.rows), clean_n |-> Len(clean.rows),
     dropped_total |-> DroppedTotal(Len(raw.rows), Len(clean.rows), n_geo, n_incoh, n_dur),
     dropped_geo |-> n_geo, incoh_time |-> n_incoh,
     dur_le_0 |-> cnt.n_le_0, dur_lt_1 |-> cnt.n_lt_1,
     dur_gt_24h |-> cnt.n_gt_24h, dropped_dur |-> n_dur,
     start_col |-> s, end_col |-> e]

\* prepare_data(path) as a whole: (df_raw, df, cleaning_log) from the file
PrepareData(f) ==
    LET raw == read_csv(f)
        cols == infer_cols(raw.columns)
        s == cols.started_at
        e == cols.ended_at
        t0 == ConvertDatetimes(raw, s, e)
        t1 == GeoStage(t0)
        t2 == IncohStage(t1, s, e)
        t3 == BoundsStage(t2)
    IN  [df_raw |-> raw, df |-> t3,
         cleaning_log |-> MakeLog(raw, t3, Len(t0.rows) - Len(t1.rows),
                                  IncohCount(t1, s, e), OutlierCounts(t2),
                                  Len(t2.rows) - Len(t3.rows), s, e)]


\* --- prepare_data as a program: one action per block of the function ----
EmptyTable == [columns |-> <<>>, rows |-> <<>>]
NoCounts == [n_le_0 |-> 0, n_lt_1 |-> 0, n_gt_24h |-> 0]

\* Timestamp texts of the input files. Start: 10:00:00 on day 1, and a text
\* whose hour field is 25. End: 09:59:00, 10:00:00, 10:00:30, 10:01:00 on
\* day 1, 10:00:00 and 10:00:01 on day 2, and a missing value.
StartCells == {Ts(1100000), Ts(1250000)}
EndCells == {Ts(1095900), Ts(1100000), Ts(1100030), Ts(1100100),
             Ts(2100000), Ts(2100001), NaN}
GeoCells == {Num(48), NaN}
OtherCells == {Num(7)}

AliasSet(a) == {a[i] : i \in 1..Len(a)}

CellDomain(name) ==
    IF Lower(name) \in AliasSet(StartAliases) THEN StartCells
    ELSE IF Lower(name) \in AliasSet(EndAliases) THEN EndCells
    ELSE IF Lower(name) \in {N_end_lat, N_end_lng} THEN GeoCells
    ELSE OtherCells

\* Column layouts of the input files
Schemas ==
    {<<N_started_at, N_ended_at, N_end_lat, N_end_lng>>,
     <<N_STARTED_AT, N_Ended_At, N_end_lat>>,
     <<N_ride_id, N_end_lat, N_end_lng>>,
     <<N_started_at, N_END_LAT, N_end_lng>>,
     <<N_start_time, N_stoptime>>,
     <<N_started_at_utc, N_ended_at>>}

RECURSIVE RowsOf(_)
RowsOf(cols) ==
    IF cols = <<>> THEN {<<>>}
    ELSE {<<c>> \o rest : c \in CellDomain(Head(cols)), rest \in RowsOf(Tail(cols))}

\* the input file is any table of at most MaxRows rows under one of the layouts
FileInit ==
    \E cols \in Schemas : \E n \in 0..MaxRows : \E rs \in [1..n -> RowsOf(cols)] :
        file = [columns |-> cols, rows |-> rs]

PdIdle ==
    /\ pc = "idle" /\ df_raw = EmptyTable /\ df = EmptyTable
    /\ start_col = None /\ end_col = None
    /\ dropped_geo = 0 /\ incoh = 0 /\ counts = NoCounts
    /\ before_dur = 0 /\ dropped_dur = 0 /\ cleaning_log = <<>>

PdInit ==
    /\ pc = "start" /\ df_raw = EmptyTable /\ df = EmptyTable
    /\ start_col = None /\ end_col = None
    /\ dropped_geo = 0 /\ incoh = 0 /\ counts = NoCounts
    /\ before_dur = 0 /\ dropped_dur = 0 /\ cleaning_log = <<>>

\* lines 53-68: read, copy, infer_cols, datetime conversions. The fillna of
\* the station-name columns (lines 66-68) changes no modelled column and no
\* row count.
PdConvert ==
    /\ pc = "start"
    /\ LET raw == read_csv(file)
           cols == infer_cols(raw.columns)
       IN  /\ df_raw' = raw
           /\ start_col' = cols.started_at
           /\ end_col' = cols.ended_at
           /\ df' = ConvertDatetimes(raw, cols.started_at, cols.ended_at)
    /\ pc' = "geo"
    /\ UNCHANGED <<dropped_geo, incoh, counts, before_dur, dropped_dur, cleaning_log>>
    /\ UNCHANGED pdOthers

\* lines 70-76
PdGeo ==
    /\ pc = "geo"
    /\ df' = GeoStage(df)
    /\ dropped_geo' = Len(df.rows) - Len(GeoStage(df).rows)
    /\ pc' = "incoh"
    /\ UNCHANGED <<df_raw, start_col, end_col, incoh, counts, before_dur,
                   dropped_dur, cleaning_log>>
    /\ UNCHANGED pdOthers

\* A slip of the temporal rule: the mask is counted on the table as it was
\* before the geo rule, not on the rows that rule left.
PdIncohOnRaw ==
    /\ pc = "incoh"
    /\ incoh' = IncohCount(ConvertDatetimes(df_raw, start_col, end_col),
                            start_col, end_col)
    /\ df' = IncohStage(df, start_col, end_col)
    /\ pc' = "outliers"
    /\ UNCHANGED <<df_raw, start_col, end_col, dropped_geo, counts, before_dur,
                   dropped_dur, cleaning_log>>
    /\ UNCHANGED pdOthers

\* lines 78-90
PdIncoh ==
    /\ pc = "incoh"
    /\ incoh' = IncohCount(df, start_col, end_col)
    /\ df' = IncohStage(df, start_col, end_col)
    /\ pc' = "outliers"
    /\ UNCHANGED <<df_raw, start_col, end_col, dropped_geo, counts, before_dur,
                   dropped_dur, cleaning_log>>
    /\ UNCHANGED pdOthers

\* lines 92-96
PdOutliers ==
    /\ pc = "outliers"
    /\ counts' = OutlierCounts(df)
    /\ pc' = "filter"
    /\ UNCHANGED <<df_raw, df, start_col, end_col, dropped_geo, incoh, before_dur,
                   dropped_dur, cleaning_log>>
    /\ UNCHANGED pdOthers

\* lines 98-101
PdFilter ==
    /\ pc = "filter"
    /\ before_dur' = Len(df.rows)
    /\ df' = BoundsStage(df)
    /\ dropped_dur' = Len(df.rows) - Len(BoundsStage(df).rows)
    /\ pc' = "log"
    /\ UNCHANGED <<df_raw, start_col, end_col, dropped_geo, incoh, counts, cleaning_log>>
    /\ UNCHANGED pdOthers

\* lines 103-122
PdLog ==
    /\ pc = "log"
    /\ cleaning_log' = MakeLog(df_raw, df, dropped_geo, incoh, counts, dropped_dur,
                               start_col, end_col)
    /\ pc' = "done"
    /\ UNCHANGED <<df_raw, df, start_col, end_col, dropped_geo, incoh, counts,
                   before_dur, dropped_dur>>
    /\ UNCHANGED pdOthers

----------------------------------------------------------------------------
(***************************************************************************)
(* utils.load_prepared: the table pages 1, 3 and 4 work on.                *)
(***************************************************************************)
\* utils.infer_cols: the start_dt and end_dt roles (user and bike are
\* resolved the same way and are read by no modelled computation)
infer_cols_utils(cols) ==
    [start_dt |-> find_col(cols, StartAliases),
     end_dt |-> find_col(cols, EndAliases)]

\* started_at.dt.day_name(): the weekday as its number, 0 = Monday ... 6 = Sunday
\* (2024-01-01, second 0, is a Monday)
DayOfWeek(c) == IF c.k = "dt" THEN [k |-> "day", v |-> (c.v \div 86400) % 7] ELSE NaN

\* started_at.dt.hour
StartHour(c) == IF c.k = "dt" THEN Num((c.v % 86400) \div 3600) ELSE NaN

\* load_prepared(path): (df, cols)
LoadPrepared(f) ==
    LET raw == read_csv(f)
        cols == infer_cols_utils(raw.columns)
        s == cols.start_dt
        e == cols.end_dt
        t1 == SetCol(raw, s, LAMBDA r : to_datetime_safe(Cell(raw, r, s)))
        t2 == SetCol(t1, e, LAMBDA r : to_datetime_safe(Cell(t1, r, e)))
        t3 == Dropna(t2, <<s, e>>)
        t4 == SetCol(t3, N_trip_duration_min,
                     LAMBDA r : Duration(Cell(t3, r, s), Cell(t3, r, e)))
        t5 == SetCol(t4, N_day_of_week, LAMBDA r : DayOfWeek(Cell(t4, r, s)))
        t6 == SetCol(t5, N_start_hour, LAMBDA r : StartHour(Cell(t5, r, s)))
    IN  IF s = None \/ e = None
        THEN [df |-> raw, cols |-> cols]
        ELSE [df |-> t6, cols |-> cols]

LpIdle == prepared = <<>>

LoadPreparedCall ==
    /\ prepared = <<>>
    /\ prepared' = LoadPrepared(file)
    /\ UNCHANGED lpOthers

----------------------------------------------------------------------------
(***************************************************************************)
(* A dashboard process: the three st.cache_data functions that pages call, *)
(* each with its own store keyed by the path argument. Every call in the   *)
(* source passes the same path, DATA_PATH, so a store holds one entry.     *)
(***************************************************************************)
Fns == {"load_raw", "load_prepared", "prepare_data"}

\* the body of a cached function, run on the file as it is at that moment
Body(fn, f) ==
    CASE fn = "load_raw" -> read_csv(f)
      [] fn = "load_prepared" -> LoadPrepared(f)
      [] fn = "prepare_data" -> PrepareData(f)

Miss == [hit |-> FALSE, value |-> <<>>, src |-> <<>>]

\* A slip of the loaders: no memoization, every call runs the body again.
StoreAfterUncached(c, fn, f) ==
    [c EXCEPT ![fn] = [hit |-> FALSE, value |-> Body(fn, f), src |-> f]]

\* @st.cache_data: a call runs the body only when the store has no entry;
\* src records the file content the entry was computed from
StoreAfter(c, fn, f) ==
    IF c[fn].hit
    THEN c
    ELSE [c EXCEPT ![fn] = [hit |-> TRUE, value |-> Body(fn, f), src |-> f]]

\* pd.read_csv executions: one per run of a body
ReadsAfter(r, c, fn) == IF c[fn].hit THEN r ELSE [r EXCEPT ![fn] = @ + 1]

\* the file contents a dashboard process may find at DATA_PATH
SessionFiles ==
    {[columns |-> <<N_started_at, N_ended_at>>,
      rows |-> <<<<Ts(1100000), Ts(1100100)>>, <<Ts(1100000), Ts(1095900)>>>>],
     [columns |-> <<N_started_at, N_ended_at>>,
      rows |-> <<<<Ts(1100000), Ts(2100001)>>>>],
     [columns |-> <<N_ride_id>>, rows |-> <<<<Num(7)>>>>]}

SsIdle ==
    /\ cache = [fn \in Fns |-> Miss]
    /\ reads = [fn \in Fns |-> 0]
    /\ shown = <<>>

\* one cached call: the new store, the new read counts
Call(fn) == cache' = StoreAfter(cache, fn, file) /\ reads' = ReadsAfter(reads, cache, fn)

\* pages/1_Dataset.py, lines 18-19: load_raw() then load_prepared()
RunDataset ==
    /\ LET c1 == StoreAfter(cache, "load_raw", file)
           r1 == ReadsAfter(reads, cache, "load_raw")
       IN  /\ cache' = StoreAfter(c1, "load_prepared", file)
           /\ reads' = ReadsAfter(r1, c1, "load_prepared")
    /\ shown' = [page |-> "1_Dataset",
                 src |-> {cache'["load_raw"].src, cache'["load_prepared"].src}]
    /\ UNCHANGED file
    /\ UNCHANGED ssOthers

\* pages/2_Qualite_et_nettoyage.py, line 146
RunQualite ==
    /\ Call("prepare_data")
    /\ shown' = [page |-> "2_Qualite_et_nettoyage", src |-> {cache'["prepare_data"].src}]
    /\ UNCHANGED file
    /\ UNCHANGED ssOthers

\* pages/3_Variables_creees.py, line 18
RunVariables ==
    /\ Call("load_prepared")
    /\ shown' = [page |-> "3_Variables_creees", src |-> {cache'["load_prepared"].src}]
    /\ UNCHANGED file
    /\ UNCHANGED ssOthers

\* pages/4_Analyses_et_graphiques.py, line 14
RunAnalyses ==
    /\ Call("load_prepared")
    /\ shown' = [page |-> "4_Analyses_et_graphiques", src |-> {cache'["load_prepared"].src}]
    /\ UNCHANGED file
    /\ UNCHANGED ssOthers

\* the environment replaces the file at DATA_PATH
FileModified ==
    /\ file' \in SessionFiles \ {file}
    /\ UNCHANGED <<cache, reads, shown>>
    /\ UNCHANGED ssOthers

----------------------------------------------------------------------------
(***************************************************************************)
(* Page 4, section 4.3: the hour buckets.                                  *)
(***************************************************************************)
bins == <<0, 6, 10, 14, 18, 22, 24>>
\* "00-05 (Nuit)" ... "22-23 (Nuit tardive)" (dashes and accents in ASCII)
labels ==
    <<"00-05 (Nuit)", "06-09 (Matin)", "10-13 (Midi)", "14-17 (Apres-midi)",
      "18-21 (Soir)", "22-23 (Nuit tardive)">>

\* a categorical cell: v is the position of the label in labels
Cat(i) == [k |-> "cat", v |-> i]

\* A slip of the call: pd.cut's default right=True, intervals (a, b].
CutRightClosed(c) ==
    IF c.k = "num" /\ \E i \in 1..(Len(bins) - 1) : bins[i] < c.v /\ c.v <= bins[i + 1]
    THEN Cat(CHOOSE i \in 1..(Len(bins) - 1) : bins[i] < c.v /\ c.v <= bins[i + 1])
    ELSE NaN

\* pd.cut(x, bins=bins, labels=labels, right=False) at one value: the
\* interval [bins[i], bins[i+1]) that holds x; NaN when none does
Cut(c) ==
    IF c.k = "num" /\ \E i \in 1..(Len(bins) - 1) : bins[i] <= c.v /\ c.v < bins[i + 1]
    THEN Cat(CHOOSE i \in 1..(Len(bins) - 1) : bins[i] <= c.v /\ c.v < bins[i + 1])
    ELSE NaN

TsIdle == df_h = EmptyTable

\* df_h = df.copy(): the start_hour column of a prepared table
TsInit ==
    df_h \in {read_csv([columns |-> <<N_start_hour>>, rows |-> rs]) :
                rs \in SeqsUpTo({<<Num(h)>> : h \in 0..23}, MaxHours)}

\* lines 119-124
AddTimeSlot ==
    /\ ~HasCol(df_h, N_time_slot)
    /\ df_h' = SetCol(df_h, N_time_slot, LAMBDA r : Cut(Cell(df_h, r, N_start_hour)))
    /\ UNCHANGED tsOthers

----------------------------------------------------------------------------
(***************************************************************************)
(* missing_table (page 2).                                                 *)
(***************************************************************************)
\* df.isna().sum() for the column at position j
Mis(t, j) == Cardinality({i \in 1..Len(t.rows) : IsNa(t.rows[i].cells[j])})

\* A slip of the rounding: the percentage is cut after two decimals.
PctTruncated(mis, n) ==
    IF n = 0 THEN NaN ELSE Num((mis * 10000) \div n)

\* lines 127 and 131: (mis / len(df) * 100).round(2), kept in hundredths of a
\* percent. numpy rounds to the nearest value, a tie to the even one; 0 / 0
\* is NaN.
Pct(mis, n) ==
    IF n = 0 THEN NaN
    ELSE LET q == (mis * 10000) \div n
             r == (mis * 10000) % n
         IN  IF 2 * r < n THEN Num(q)
             ELSE IF 2 * r > n THEN Num(q + 1)
             ELSE IF q % 2 = 0 THEN Num(q) ELSE Num(q + 1)

\* lines 128-132: the frame before the sort, one row per column
MissingRows(t) ==
    [j \in 1..Len(t.columns) |->
        [Variable |-> t.columns[j], Manquants |-> Mis(t, j),
         Pourcentage |-> Pct(Mis(t, j), Len(t.rows))]]

\* sort_values(ascending=False): a may stand before b; NaN goes last
SortedBefore(a, b) ==
    \/ b.k = "nan"
    \/ a.k = "num" /\ b.k = "num" /\ a.v >= b.v

\* line 133: the orders sort_values may return (the order among equal
\* percentages is the sort algorithm's choice); reset_index drops the labels
SortValues(rows) ==
    LET n == Len(rows)
        perms == {p \in [1..n -> 1..n] : \A i, j \in 1..n : i # j => p[i] # p[j]}
        sorted == {p \in perms : \A i, j \in 1..n :
                      i < j => SortedBefore(rows[p[i]].Pourcentage, rows[p[j]].Pourcentage)}
    IN  {[i \in 1..n |-> rows[p[i]]] : p \in sorted}

\* missing_table(df): the frames it may return
missing_table(t) == SortValues(MissingRows(t))

MtColumns == {<<N_ride_id>>, <<N_ride_id, N_end_lat>>, <<N_ride_id, N_end_lat, N_end_lng>>}

MtIdle == mt_df = EmptyTable /\ out = <<>>

MtInit ==
    /\ mt_df \in UNION {{read_csv([columns |-> cols, rows |-> rs]) :
                            rs \in SeqsUpTo([1..Len(cols) -> {Num(7), NaN}], MaxMtRows)} :
                         cols \in MtColumns}
    /\ out = <<>>

MissingTableCall ==
    /\ out = <<>>
    /\ out' \in missing_table(mt_df)
    /\ UNCHANGED mt_df
    /\ UNCHANGED mtOthers

----------------------------------------------------------------------------
(***************************************************************************)
(* Specifications.                                                         *)
(***************************************************************************)
FileIdle == file = EmptyTable

\* _find_col on its own
InitResolver == FcInit /\ FileIdle /\ PdIdle /\ LpIdle /\ SsIdle /\ TsIdle /\ MtIdle
NextResolver == FindColCall
SpecResolver == InitResolver /\ [][NextResolver]_vars

\* prepare_data on every input file of the bounds
InitClean == FileInit /\ PdInit /\ FcIdle /\ LpIdle /\ SsIdle /\ TsIdle /\ MtIdle
NextClean == PdConvert \/ PdGeo \/ PdIncoh \/ PdOutliers \/ PdFilter \/ PdLog
SpecClean == InitClean /\ [][NextClean]_vars

\* load_prepared on every input file of the bounds
InitPrepared == FileInit /\ PdIdle /\ FcIdle /\ LpIdle /\ SsIdle /\ TsIdle /\ MtIdle
NextPrepared == LoadPreparedCall
SpecPrepared == InitPrepared /\ [][NextPrepared]_vars

\* the hour buckets
InitSlots == TsInit /\ FileIdle /\ PdIdle /\ FcIdle /\ LpIdle /\ SsIdle /\ MtIdle
NextSlots == AddTimeSlot
SpecSlots == InitSlots /\ [][NextSlots]_vars

\* missing_table
InitMissing == MtInit /\ FileIdle /\ PdIdle /\ FcIdle /\ LpIdle /\ SsIdle /\ TsIdle
NextMissing == MissingTableCall
SpecMissing == InitMissing /\ [][NextMissing]_vars

\* the dashboard: page runs in any order, the file replaced at any moment
Init == file \in SessionFiles /\ SsIdle /\ PdIdle /\ FcIdle /\ LpIdle /\ TsIdle /\ MtIdle
Next == RunDataset \/ RunQualite \/ RunVariables \/ RunAnalyses \/ FileModified
Spec == Init /\ [][Next]_vars

----------------------------------------------------------------------------
(***************************************************************************)
(* Properties.                                                             *)
(***************************************************************************)
\* the row of df_raw that a row of a later table comes from (same index label)
RawRow(r) == df_raw.rows[r.idx + 1]

\* C1: the log of prepare_data satisfies raw_n - dropped_total = clean_n and
\* dropped_total = dropped_geo + incoh_time + dropped_dur, where raw_n and
\* clean_n are the row counts of the input file and of the cleaned table.
C1_LogArithmetic ==
    pc = "done" =>
        /\ cleaning_log.raw_n = Len(file.rows)
        /\ cleaning_log.clean_n = Len(df.rows)
        /\ cleaning_log.raw_n - cleaning_log.dropped_total = cleaning_log.clean_n
        /\ cleaning_log.dropped_total =
             cleaning_log.dropped_geo + cleaning_log.incoh_time + cleaning_log.dropped_dur

\* C1 witness: a finished run in which two rules each removed a row
C1_Witness ==
    /\ pc = "done"
    /\ cleaning_log.dropped_geo = 1 /\ cleaning_log.incoh_time = 1
    /\ cleaning_log.dropped_total = 2

\* C2: every row of the cleaned table has a trip_duration_min that is not
\* missing, lies in [1, 1440] minutes, and is the end time minus the start
\* time of that row's own timestamps, parsed from the raw row.
C2_CleanDurations ==
    pc \in {"log", "done"} =>
        \A i \in 1..Len(df.rows) :
            LET r == df.rows[i]
                dur == Cell(df, r, N_trip_duration_min)
                s == Cell(df_raw, RawRow(r), start_col)
                e == Cell(df_raw, RawRow(r), end_col)
            IN  /\ dur.k = "num"
                /\ dur.v >= 1 * 60 /\ dur.v <= 1440 * 60
                /\ Truthy(start_col) /\ Truthy(end_col)
                /\ s.k = "ts" /\ e.k = "ts"
                /\ dur.v = ParseTs(e.v) - ParseTs(s.v)
                /\ dur.v = Cell(df, r, end_col).v - Cell(df, r, start_col).v

\* C2 witness: a cleaned table that keeps a 1-minute and a 1440-minute trip
C2_Witness ==
    /\ pc = "done"
    /\ Len(df.rows) = 2
    /\ Cell(df, df.rows[1], N_trip_duration_min) = Num(60)
    /\ Cell(df, df.rows[2], N_trip_duration_min) = Num(86400)

\* two names are equal up to the case of their letters
SameIgnoringCase(a, b) == a[1] = b[1]

\* C4: _find_col returns a column of the table that equals, up to case, the
\* earliest alias of the list that equals any column up to case; it returns
\* None when no alias equals a column up to case; a column that merely
\* contains an alias or is contained in one is never returned; a lone
\* "STARTED_AT" is returned for the start-time role.
C4_FindCol ==
    fc_result # Pending =>
        LET n == Len(fc_candidates)
            m == Len(fc_columns)
            found(a) == \E i \in 1..m : SameIgnoringCase(fc_columns[i], fc_candidates[a])
        IN  /\ (\A a \in 1..n : ~found(a)) => fc_result = None
            /\ (\E a \in 1..n : found(a)) =>
                 /\ \E i \in 1..m : fc_columns[i] = fc_result
                 /\ \E a \in 1..n :
                      /\ found(a) /\ \A b \in 1..(a - 1) : ~found(b)
                      /\ SameIgnoringCase(fc_result, fc_candidates[a])
            /\ fc_result \notin {N_start, N_started_at_utc}
            /\ (/\ fc_candidates = StartAliases
                /\ \E i \in 1..m : fc_columns[i] = N_STARTED_AT
                /\ \A i \in 1..m :
                     SameIgnoringCase(fc_columns[i], N_started_at) => fc_columns[i] = N_STARTED_AT)
               => fc_result = N_STARTED_AT

\* C4 witness: "STARTED_AT" found among columns that contain, or are
\* contained in, an alias
C4_Witness ==
    /\ fc_columns = <<N_start, N_started_at_utc, N_STARTED_AT>>
    /\ fc_candidates = StartAliases
    /\ fc_result = N_STARTED_AT

\* no column of the file is a start-time or end-time alias up to case
NoTimeCols ==
    \A i \in 1..Len(file.columns) :
        \A a \in 1..Len(StartAliases) :
            /\ ~SameIgnoringCase(file.columns[i], StartAliases[a])
            /\ ~SameIgnoringCase(file.columns[i], EndAliases[a])

\* C5: on a file without start-time and end-time columns prepare_data runs to
\* its end: every row gets a missing trip_duration_min, the bounds filter
\* removes every row the geo rule left, clean_n = 0, incoh_time = 0 and the
\* log holds None for start_col and end_col.
C5_DegradedMode ==
    (NoTimeCols /\ pc # "start") =>
        /\ start_col = None /\ end_col = None
        /\ pc \in {"outliers", "filter"} =>
             \A i \in 1..Len(df.rows) : Cell(df, df.rows[i], N_trip_duration_min) = NaN
        /\ pc \in {"log", "done"} => df.rows = <<>> /\ dropped_dur = before_dur
        /\ pc = "done" =>
             /\ cleaning_log.clean_n = 0
             /\ cleaning_log.incoh_time = 0
             /\ cleaning_log.dropped_dur = cleaning_log.raw_n - cleaning_log.dropped_geo
             /\ cleaning_log.start_col = None /\ cleaning_log.end_col = None

\* C5 witness: a finished degraded run that lost a row to each of the two
\* rules that still apply
C5_Witness ==
    /\ NoTimeCols /\ pc = "done"
    /\ cleaning_log.raw_n = 2
    /\ cleaning_log.dropped_geo = 1 /\ cleaning_log.dropped_dur = 1

\* a row of table t whose start or end timestamp did not parse
Unparsed(t, r) == IsNa(Cell(t, r, start_col)) \/ IsNa(Cell(t, r, end_col))

\* the index labels of the rows of t
Labels(t) == {t.rows[i].idx : i \in 1..Len(t.rows)}

\* C6: with both timestamp columns resolved, the temporal-consistency step
\* removes no row whose start or end failed to parse and incoh_time counts
\* only rows with both parsed and end before start; each such row gets a
\* missing duration, and the duration-bounds step removes every row with a
\* missing duration and counts it in dropped_dur.
C6_UnparsedRows ==
    [][(Truthy(start_col) /\ Truthy(end_col)) =>
        /\ pc = "incoh" =>
             /\ \A i \in 1..Len(df.rows) :
                  Unparsed(df, df.rows[i]) =>
                    \E j \in 1..Len(df'.rows) :
                       /\ df'.rows[j].idx = df.rows[i].idx
                       /\ Cell(df', df'.rows[j], N_trip_duration_min) = NaN
             /\ incoh' = Cardinality({i \in 1..Len(df.rows) :
                           /\ ~Unparsed(df, df.rows[i])
                           /\ Cell(df, df.rows[i], end_col).v
                                < Cell(df, df.rows[i], start_col).v})
        /\ pc = "filter" =>
             LET gone == Labels(df) \ Labels(df')
                 unparsed == {df.rows[i].idx : i \in
                                {k \in 1..Len(df.rows) : Unparsed(df, df.rows[k])}}
             IN  /\ unparsed \subseteq gone
                 /\ dropped_dur' = Cardinality(gone)
                 /\ \A i \in 1..Len(df.rows) :
                      Unparsed(df, df.rows[i]) =>
                        Cell(df, df.rows[i], N_trip_duration_min) = NaN
      ]_vars

\* C6 witness: a finished run on two rows, one with a start and one with an
\* end that did not parse, both removed by the duration-bounds filter only
C6_Witness ==
    /\ pc = "done"
    /\ Truthy(start_col) /\ Truthy(end_col)
    /\ Len(df_raw.rows) = 2
    /\ Cell(df_raw, df_raw.rows[1], start_col) = Ts(1250000)
    /\ Cell(df_raw, df_raw.rows[2], end_col) = NaN
    /\ Cell(df_raw, df_raw.rows[2], start_col) = Ts(1100000)
    /\ cleaning_log.dropped_geo = 0
    /\ cleaning_log.incoh_time = 0 /\ cleaning_log.dropped_dur = 2

\* the bucket the half-open ranges give an hour
ExpectedSlot(h) ==
    IF h < 6 THEN "00-05 (Nuit)"
    ELSE IF h < 10 THEN "06-09 (Matin)"
    ELSE IF h < 14 THEN "10-13 (Midi)"
    ELSE IF h < 18 THEN "14-17 (Apres-midi)"
    ELSE IF h < 22 THEN "18-21 (Soir)"
    ELSE "22-23 (Nuit tardive)"

\* C9: every start_hour in 0..23 gets one of the six labels, the one of the
\* half-open range [0,6), [6,10), [10,14), [14,18), [18,22), [22,24) that
\* holds it, the labels being in that order.
C9_TimeSlots ==
    HasCol(df_h, N_time_slot) =>
        \A i \in 1..Len(df_h.rows) :
            LET h == Cell(df_h, df_h.rows[i], N_start_hour).v
                slot == Cell(df_h, df_h.rows[i], N_time_slot)
            IN  /\ slot.k = "cat"
                /\ slot.v \in 1..6
                /\ labels[slot.v] = ExpectedSlot(h)

\* C9 witness: hours 6 and 23 bucketed as Morning and Late-night
C9_Witness ==
    /\ HasCol(df_h, N_time_slot)
    /\ Len(df_h.rows) = 2
    /\ df_h.rows[1].cells = <<Num(6), Cat(2)>>
    /\ df_h.rows[2].cells = <<Num(23), Cat(6)>>

\* C10: missing_table returns one row per column of the table, with that
\* column's count of missing values and, for a table with rows, the count as
\* a percentage of the row count to the nearest hundredth (30 of 200 is
\* 15.00); the rows are in non-increasing order of percentage; the input
\* table is left as it was.
C10_MissingTable ==
    [][(out = <<>> /\ out' # <<>>) =>
        LET n == Len(mt_df.rows)
            m == Len(mt_df.columns)
        IN  /\ Len(out') = m
            /\ \A j \in 1..m :
                 Cardinality({i \in 1..m : out'[i].Variable = mt_df.columns[j]}) = 1
            /\ \A i \in 1..m :
                 \E j \in 1..m :
                    /\ out'[i].Variable = mt_df.columns[j]
                    /\ out'[i].Manquants =
                         Cardinality({k \in 1..n : mt_df.rows[k].cells[j] = NaN})
            /\ n > 0 =>
                 \A i \in 1..m :
                    LET p == out'[i].Pourcentage
                        d == p.v * n - out'[i].Manquants * 10000
                    IN  /\ p.k = "num"
                        /\ 2 * d <= n /\ 2 * d >= 0 - n
            /\ \A i \in 1..m : \A j \in 1..m :
                 (i < j /\ out'[i].Pourcentage.k = "num" /\ out'[j].Pourcentage.k = "num")
                    => out'[i].Pourcentage.v >= out'[j].Pourcentage.v
            /\ Pct(30, 200) = Num(1500)
            /\ mt_df' = mt_df
      ]_vars

\* C10 witness: a report on three rows with 66.67 % before 33.33 % before 0 %
C10_Witness ==
    /\ Len(mt_df.rows) = 3
    /\ Len(out) = 3
    /\ out[1].Pourcentage = Num(6667)
    /\ out[2].Pourcentage = Num(3333)
    /\ out[3].Pourcentage = Num(0)

\* C3 (as claimed): every row of the table load_prepared returns has
\* 1 <= trip_duration_min <= 1440.
CE_C3_PreparedInBounds ==
    (prepared # <<>> /\ HasCol(prepared.df, N_trip_duration_min)) =>
        \A i \in 1..Len(prepared.df.rows) :
            LET dur == Cell(prepared.df, prepared.df.rows[i], N_trip_duration_min)
            IN  dur.k = "num" /\ dur.v >= 1 * 60 /\ dur.v <= 1440 * 60

\* pd.read_csv executions of the process so far
TotalReads == reads["load_raw"] + reads["load_prepared"] + reads["prepare_data"]

\* C8 (as claimed): the file is read once, and every stored result comes
\* from the same file content.
CE_C8_ReadOnce ==
    /\ TotalReads <= 1
    /\ \A f, g \in Fns : (cache[f].hit /\ cache[g].hit) => cache[f].src = cache[g].src

\* C8 (amended): each cached function on its own reads the file and runs its
\* body at most once; once it holds a result, every later request leaves the
\* result and the read count as they are, whatever the file now holds; a
\* stored result is the function's body applied to the content read then.
C8_PerFunctionMemo ==
    [][\A fn \in Fns :
        /\ reads'[fn] <= 1
        /\ cache'[fn].hit <=> reads'[fn] = 1
        /\ cache[fn].hit => (cache'[fn] = cache[fn] /\ reads'[fn] = reads[fn])
        /\ cache'[fn].hit => cache'[fn].value = Body(fn, cache'[fn].src)
      ]_vars

\* C8 witness: all three functions have read the file, not all the same
\* content, and page 3 has just been served a result older than the file
C8_Witness ==
    /\ \A fn \in Fns : cache[fn].hit /\ reads[fn] = 1
    /\ cache["load_raw"].src # cache["prepare_data"].src
    /\ shown # <<>>
    /\ shown.page = "3_Variables_creees"
    /\ shown.src = {cache["load_prepared"].src}
    /\ cache["load_prepared"].src # file

----------------------------------------------------------------------------
(***************************************************************************)
(* The three rules of prepare_data, read off the rows of df_raw.           *)
(***************************************************************************)
\* the file has both geo columns and the raw row at position i misses one value
RawGeoMissing(i) ==
    /\ \E a \in 1..Len(df_raw.columns) : df_raw.columns[a] = N_end_lat
    /\ \E a \in 1..Len(df_raw.columns) : df_raw.columns[a] = N_end_lng
    /\ \/ Cell(df_raw, df_raw.rows[i], N_end_lat) = NaN
       \/ Cell(df_raw, df_raw.rows[i], N_end_lng) = NaN

\* both timestamp columns are resolved and both texts of the raw row parse
RawParsed(i) ==
    /\ Truthy(start_col) /\ Truthy(end_col)
    /\ Cell(df_raw, df_raw.rows[i], start_col).k = "ts"
    /\ Cell(df_raw, df_raw.rows[i], end_col).k = "ts"
    /\ ParseTs(Cell(df_raw, df_raw.rows[i], start_col).v) >= 0
    /\ ParseTs(Cell(df_raw, df_raw.rows[i], end_col).v) >= 0

\* end minus start of the raw row, in seconds
RawSeconds(i) ==
    ParseTs(Cell(df_raw, df_raw.rows[i], end_col).v)
        - ParseTs(Cell(df_raw, df_raw.rows[i], start_col).v)

RawEndBeforeStart(i) == RawParsed(i) /\ RawSeconds(i) < 0

\* the duration of the raw row is missing or outside [1 min, 24 h]
RawOutOfBounds(i) ==
    ~(RawParsed(i) /\ RawSeconds(i) >= 60 /\ RawSeconds(i) <= 86400)

\* the earliest rule, in the order geo, temporal, duration, the raw row violates
FirstRule(i) ==
    IF RawGeoMissing(i) THEN "geo"
    ELSE IF RawEndBeforeStart(i) THEN "incoh"
    ELSE IF RawOutOfBounds(i) THEN "dur"
    ELSE "none"

\* index labels of the raw rows whose earliest violated rule is `rule`
CountedBy(rule) ==
    {df_raw.rows[i].idx : i \in {k \in 1..Len(df_raw.rows) : FirstRule(k) = rule}}

\* positions of the raw rows that pass the geo and the temporal rule
Survivors ==
    {i \in 1..Len(df_raw.rows) : ~RawGeoMissing(i) /\ ~RawEndBeforeStart(i)}

\* C11: prepare_data applies the geo, temporal and duration rules in that
\* order, each to the rows the earlier ones left: the rows a step removes, and
\* the count it records, are exactly the raw rows whose earliest violated rule
\* is that step's; the log carries these three counts and the cleaned table
\* holds exactly the rows that violate no rule.
C11_EarliestRule ==
    [][/\ pc = "geo" =>
            /\ Labels(df) \ Labels(df') = CountedBy("geo")
            /\ dropped_geo' = Cardinality(CountedBy("geo"))
       /\ pc = "incoh" =>
            /\ Labels(df) = Labels(df_raw) \ CountedBy("geo")
            /\ Labels(df) \ Labels(df') = CountedBy("incoh")
            /\ incoh' = Cardinality(CountedBy("incoh"))
       /\ pc = "filter" =>
            /\ Labels(df) = Labels(df_raw) \ (CountedBy("geo") \cup CountedBy("incoh"))
            /\ Labels(df) \ Labels(df') = CountedBy("dur")
            /\ dropped_dur' = Cardinality(CountedBy("dur"))
       /\ pc = "log" =>
            /\ cleaning_log'.dropped_geo = Cardinality(CountedBy("geo"))
            /\ cleaning_log'.incoh_time = Cardinality(CountedBy("incoh"))
            /\ cleaning_log'.dropped_dur = Cardinality(CountedBy("dur"))
            /\ Labels(df) = CountedBy("none")
      ]_vars

\* C11 witness: a finished run on two rows that both end before they start;
\* the first also misses end_lat and is counted in dropped_geo only
C11_Witness ==
    /\ pc = "done"
    /\ Len(df_raw.rows) = 2
    /\ RawEndBeforeStart(1) /\ RawEndBeforeStart(2)
    /\ HasCol(df_raw, N_end_lat) /\ HasCol(df_raw, N_end_lng)
    /\ Cell(df_raw, df_raw.rows[1], N_end_lat) = NaN
    /\ ~RawGeoMissing(2)
    /\ cleaning_log.dropped_geo = 1 /\ cleaning_log.incoh_time = 1
    /\ cleaning_log.dropped_dur = 0

\* C12: when the file has both an end_lat and an end_lng column, the geo step
\* removes exactly the rows that miss either value and dropped_geo is their
\* number; when one of the two columns is absent the step leaves the table as
\* it is and dropped_geo = 0; either way the step completes and the log
\* carries the count.
C12_GeoRule ==
    [][/\ pc = "geo" =>
            LET both == /\ \E a \in 1..Len(df_raw.columns) : df_raw.columns[a] = N_end_lat
                        /\ \E a \in 1..Len(df_raw.columns) : df_raw.columns[a] = N_end_lng
                missing == {k \in 1..Len(df_raw.rows) :
                               \/ Cell(df_raw, df_raw.rows[k], N_end_lat) = NaN
                               \/ Cell(df_raw, df_raw.rows[k], N_end_lng) = NaN}
            IN  /\ pc' = "incoh"
                /\ both =>
                     /\ dropped_geo' = Cardinality(missing)
                     /\ Labels(df') = {k - 1 : k \in (1..Len(df_raw.rows)) \ missing}
                     /\ df'.rows = SelectSeq(df.rows, LAMBDA r : r.idx + 1 \notin missing)
                /\ ~both => (dropped_geo' = 0 /\ df' = df)
       /\ pc = "log" => cleaning_log'.dropped_geo = dropped_geo
      ]_vars

\* C12 witness: a finished run on a file with both geo columns whose first
\* row misses end_lng only and is the one row removed by the geo rule
C12_Witness ==
    /\ pc = "done"
    /\ HasCol(df_raw, N_end_lat) /\ HasCol(df_raw, N_end_lng)
    /\ Len(df_raw.rows) = 2
    /\ Cell(df_raw, df_raw.rows[1], N_end_lat) = Num(48)
    /\ Cell(df_raw, df_raw.rows[1], N_end_lng) = NaN
    /\ ~RawGeoMissing(2)
    /\ cleaning_log.dropped_geo = 1
    /\ 0 \notin Labels(df)

\* C13 (as claimed): load_prepared drops no row: the table it returns has as
\* many rows as the file, and a row whose start timestamp does not parse is
\* in it with a missing trip_duration_min, day_of_week and start_hour.
CE_C13_NoRowDropped ==
    prepared # <<>> =>
        /\ Len(prepared.df.rows) = Len(file.rows)
        /\ (prepared.cols.start_dt # None /\ prepared.cols.end_dt # None) =>
             \A i \in 1..Len(file.rows) :
                LET c == file.rows[i][ColIndex(file, prepared.cols.start_dt)]
                IN  (c.k = "ts" /\ ParseTs(c.v) < 0) =>
                      \E j \in 1..Len(prepared.df.rows) :
                         LET r == prepared.df.rows[j]
                         IN  /\ r.idx = i - 1
                             /\ Cell(prepared.df, r, N_trip_duration_min) = NaN
                             /\ Cell(prepared.df, r, N_day_of_week) = NaN
                             /\ Cell(prepared.df, r, N_start_hour) = NaN

\* C14: in the log of every finished run dropped_dur = dur_le_0 + dur_lt_1 +
\* dur_gt_24h + the number of rows that passed the geo and temporal rules
\* with a missing duration; the three counts are the sizes of three disjoint
\* sets of those rows (duration <= 0, in (0, 1 min), above 24 h).
C14_DurationBreakdown ==
    pc = "done" =>
        LET nodur == {i \in Survivors : ~RawParsed(i)}
            le0 == {i \in Survivors : RawParsed(i) /\ RawSeconds(i) <= 0}
            lt1 == {i \in Survivors :
                      RawParsed(i) /\ RawSeconds(i) > 0 /\ RawSeconds(i) < 60}
            gt24 == {i \in Survivors : RawParsed(i) /\ RawSeconds(i) > 86400}
        IN  /\ cleaning_log.dur_le_0 = Cardinality(le0)
            /\ cleaning_log.dur_lt_1 = Cardinality(lt1)
            /\ cleaning_log.dur_gt_24h = Cardinality(gt24)
            /\ le0 \cap lt1 = {} /\ le0 \cap gt24 = {} /\ lt1 \cap gt24 = {}
            /\ cleaning_log.dropped_dur =
                 cleaning_log.dur_le_0 + cleaning_log.dur_lt_1
                   + cleaning_log.dur_gt_24h + Cardinality(nodur)
            /\ before_dur = Cardinality(Survivors)
            /\ cleaning_log.clean_n = before_dur - cleaning_log.dropped_dur

\* C14 witness: a finished run that lost two rows to the duration filter,
\* one longer than 24 h and one whose start did not parse
C14_Witness ==
    /\ pc = "done"
    /\ Len(df_raw.rows) = 2
    /\ Survivors = {1, 2}
    /\ RawParsed(1) /\ RawSeconds(1) = 86401
    /\ ~RawParsed(2)
    /\ cleaning_log.dur_gt_24h = 1 /\ cleaning_log.dur_le_0 = 0
    /\ cleaning_log.dur_lt_1 = 0 /\ cleaning_log.dropped_dur = 2

\* C15: no row reaches the outlier counts with a negative duration, so
\* dur_le_0 is the number of rows that passed the geo and temporal rules and
\* end at the second they start; it is 0 when a timestamp column is not
\* resolved.
C15_Le0IsZeroDuration ==
    /\ pc \in {"outliers", "filter"} =>
         \A i \in 1..Len(df.rows) :
            LET dur == Cell(df, df.rows[i], N_trip_duration_min)
            IN  dur.k = "num" => dur.v >= 0
    /\ pc \in {"filter", "log", "done"} =>
         /\ counts.n_le_0 =
              Cardinality({i \in Survivors : RawParsed(i) /\ RawSeconds(i) = 0})
         /\ ~(Truthy(start_col) /\ Truthy(end_col)) => counts.n_le_0 = 0
    /\ pc = "done" => cleaning_log.dur_le_0 = counts.n_le_0

\* C15 witness: a finished run on a row that ends when it starts and a row
\* that ends before it starts; only the first is counted in dur_le_0
C15_Witness ==
    /\ pc = "done"
    /\ Len(df_raw.rows) = 2
    /\ RawParsed(1) /\ RawSeconds(1) = 0
    /\ RawParsed(2) /\ RawSeconds(2) < 0
    /\ Survivors = {1}
    /\ cleaning_log.incoh_time = 1 /\ cleaning_log.dur_le_0 = 1


====
